---- MODULE Spec2Model ----
(***************************************************************************)
(* Model of tomoseg_gui.py: the annotation canvas (ImageLabel) and the     *)
(* main window (MainWindow) of the Tomoseg point-annotation tool.          *)
(*                                                                         *)
(* The program is single threaded and event driven: every action below is  *)
(* one slot or event handler run to completion.  Strings that the code     *)
(* takes apart (file paths) are sequences of one-character strings.        *)
(***************************************************************************)
EXTENDS Integers, Sequences, FiniteSets, TLC

(* ------------------------------ bounds -------------------------------- *)

\* largest number of points held by the two lists together
MaxPoints == 2

\* largest length of the first axis of a volumetric file
MaxDepth == 4

\* largest number of pixels of a slice that is rendered
MaxPixels == 3

(* ------------------------- inputs of the model ------------------------ *)

\* coordinates a left click may carry (one is far outside any raster)
Coords == { <<0, 0>>, <<3, 4>>, <<-20, 900>> }

\* coordinates a right click may carry
Positions == Coords \cup { <<4, 0>> }

FileS1 == <<"a", "/", "s", ".", "m", "r", "c">>
FileS2 == <<"b", "/", "s", ".", "M", "R", "C">>
FileP  == <<"a", "/", "p", ".", "p", "n", "g">>

\* the files the open dialog can return
Files == { FileS1, FileS2, FileP }

\* what mrcfile.open finds in a file: it raises ("fail"), it yields no data
\* block ("nodata", permissive mode), or it yields an array whose first
\* axis has length len and whose slices are 2-D (renders) or not
Contents ==
  { [parse |-> "fail", len |-> 0, renders |-> FALSE],
    [parse |-> "nodata", len |-> 0, renders |-> FALSE],
    [parse |-> "ok", len |-> 1, renders |-> FALSE] }
  \cup [parse : {"ok"}, len : 0..MaxDepth, renders : {TRUE}]

NoContent == [parse |-> "fail", len |-> 0, renders |-> FALSE]

\* the contents met while the point lists are explored
CanvasContents ==
  { [parse |-> "fail", len |-> 0, renders |-> FALSE],
    [parse |-> "nodata", len |-> 0, renders |-> FALSE],
    [parse |-> "ok", len |-> 2, renders |-> TRUE] }

\* the clicks made while the slice viewer is explored, and the number of
\* points held then: one for each such coordinate
ViewerCoords == { <<3, 4>> }

ViewerPoints == Cardinality(ViewerCoords)

\* the values a pixel of a slice may have
PixelValues == { -3, 0, 7 }

\* the slices that are rendered, their pixels in row order
Slices == UNION { [1..n -> PixelValues] : n \in 1..MaxPixels }

(* ------------------------------ helpers ------------------------------- *)

Abs(n) == IF n < 0 THEN -n ELSE n

Min(a, b) == IF a < b THEN a ELSE b

\* Python None for mrc_data, and the null QPixmap
None == [file |-> <<>>, len |-> -1, renders |-> FALSE]

NullPixmap == [file |-> <<>>, slice |-> -1]

NoArchive == [path |-> <<>>, filename |-> <<>>,
              points |-> [shape |-> <<>>, data |-> <<>>],
              labels |-> [shape |-> <<>>, data |-> <<>>]]

\* QPoint.manhattanLength of (point - pos)
manhattanLength(point, pos) == Abs(point[1] - pos[1]) + Abs(point[2] - pos[2])

\* list.remove(x): drops the first element equal to x
RECURSIVE list_remove(_, _)
list_remove(list, x) ==
  IF list = <<>> THEN <<>>
  ELSE IF Head(list) = x THEN Tail(list)
  ELSE <<Head(list)>> \o list_remove(Tail(list), x)

\* index of the last occurrence of c in s, 0 when there is none
LastIndex(s, c) ==
  LET I == { i \in 1..Len(s) : s[i] = c }
  IN IF I = {} THEN 0 ELSE CHOOSE i \in I : \A j \in I : j <= i

\* os.path.basename
basename(p) == SubSeq(p, LastIndex(p, "/") + 1, Len(p))

\* os.path.splitext: <<root, ext>>; a dot only splits when some character
\* that is not a dot stands between the last separator and it
splitext(p) ==
  LET sep == LastIndex(p, "/")
      dot == LastIndex(p, ".")
  IN IF dot > sep /\ (\E i \in (sep + 1)..(dot - 1) : p[i] # ".")
     THEN <<SubSeq(p, 1, dot - 1), SubSeq(p, dot, Len(p))>>
     ELSE <<p, <<>>>>

\* str.lower on the characters that occur
lower_char(c) ==
  CASE c = "M" -> "m"
    [] c = "R" -> "r"
    [] c = "C" -> "c"
    [] OTHER -> c

lower(s) == [i \in 1..Len(s) |-> lower_char(s[i])]

ExtMrc == <<".", "m", "r", "c">>

(* ------------------------- numpy, as save uses it --------------------- *)

\* an ndarray is [shape, data]: data is a sequence of numbers for one
\* dimension and a sequence of rows for two

\* np.array([[p.x(), p.y()] for p in points]): shape (n, 2), but an empty
\* list gives the one-dimensional array of shape (0,)
np_array(points) ==
  IF points = <<>>
  THEN [shape |-> <<0>>, data |-> <<>>]
  ELSE [shape |-> <<Len(points), 2>>,
        data |-> [i \in 1..Len(points) |-> <<points[i][1], points[i][2]>>]]

\* np.atleast_2d: a one-dimensional array of n items becomes one row
atleast_2d(a) ==
  IF Len(a.shape) = 1
  THEN [shape |-> <<1, a.shape[1]>>, data |-> <<a.data>>]
  ELSE a

\* np.vstack((a, b)): concatenation along axis 0 of the two arrays made
\* 2-D; the other axis must agree, else ValueError
vstack_raises(a, b) == atleast_2d(a).shape[2] # atleast_2d(b).shape[2]

vstack(a, b) ==
  LET A == atleast_2d(a)
      B == atleast_2d(b)
  IN [shape |-> <<A.shape[1] + B.shape[1], A.shape[2]>>,
      data |-> A.data \o B.data]

\* len(ndarray): the length of the first axis
np_len(a) == a.shape[1]

np_ones(n) == [shape |-> <<n>>, data |-> [i \in 1..n |-> 1]]

np_zeros(n) == [shape |-> <<n>>, data |-> [i \in 1..n |-> 0]]

\* np.hstack of two one-dimensional arrays
hstack(a, b) == [shape |-> <<a.shape[1] + b.shape[1]>>, data |-> a.data \o b.data]

(* ---------------------------- ImageLabel ------------------------------ *)

\* ImageLabel.point_size
point_size == 5

\* ImageLabel.__init__
ImageLabel_init ==
  [points_foreground |-> <<>>,
   points_background |-> <<>>,
   current_mode |-> "foreground",
   image |-> NullPixmap]

\* a set_image that forgets to reset the lists
set_image_keep(l, image_path) == [l EXCEPT !.image = [file |-> image_path, slice |-> -1]]

\* ImageLabel.set_image
set_image(l, image_path) ==
  [l EXCEPT !.image = [file |-> image_path, slice |-> -1],
            !.points_foreground = <<>>,
            !.points_background = <<>>]

\* ImageLabel.set_mrc_image
set_mrc_image(l, pixmap) ==
  [l EXCEPT !.image = pixmap,
            !.points_foreground = <<>>,
            !.points_background = <<>>]

\* a search that picks the entry of list nearest to pos within radius
NearestInRange(list, pos, radius) ==
  LET I == { i \in 1..Len(list) : manhattanLength(list[i], pos) <= radius }
  IN IF I = {} THEN 0
     ELSE CHOOSE i \in I :
            \A j \in I : \/ manhattanLength(list[i], pos) < manhattanLength(list[j], pos)
                         \/ /\ manhattanLength(list[i], pos) = manhattanLength(list[j], pos)
                            /\ i <= j

\* the first entry of list within radius of pos, 0 when there is none
FirstInRange(list, pos, radius) ==
  LET I == { i \in 1..Len(list) : manhattanLength(list[i], pos) <= radius }
  IN IF I = {} THEN 0 ELSE CHOOSE i \in I : \A j \in I : i <= j

\* a remove_point that searches the background list first
remove_point_bgfirst(l, pos) ==
  LET radius == point_size + 2
      f == FirstInRange(l.points_foreground, pos, radius)
      b == FirstInRange(l.points_background, pos, radius)
  IN IF b > 0
     THEN [l EXCEPT !.points_background = list_remove(@, @[b])]
     ELSE IF f > 0
     THEN [l EXCEPT !.points_foreground = list_remove(@, @[f])]
     ELSE l

\* ImageLabel.remove_point
remove_point(l, pos) ==
  LET radius == point_size + 2
      f == FirstInRange(l.points_foreground, pos, radius)
      b == FirstInRange(l.points_background, pos, radius)
  IN IF f > 0
     THEN [l EXCEPT !.points_foreground = list_remove(@, @[f])]
     ELSE IF b > 0
     THEN [l EXCEPT !.points_background = list_remove(@, @[b])]
     ELSE l

\* a mousePressEvent whose left click skips a coordinate already stored
mousePressEvent_dedup(l, button, pos) ==
  LET stored == { l.points_foreground[i] : i \in 1..Len(l.points_foreground) }
                \cup { l.points_background[i] : i \in 1..Len(l.points_background) }
  IN IF button = "LeftButton"
     THEN IF pos \in stored THEN l
          ELSE IF l.current_mode = "foreground"
          THEN [l EXCEPT !.points_foreground = Append(@, pos)]
          ELSE [l EXCEPT !.points_background = Append(@, pos)]
     ELSE IF button = "RightButton" THEN remove_point(l, pos)
     ELSE l

\* ImageLabel.mousePressEvent
mousePressEvent(l, button, pos) ==
  IF button = "LeftButton"
  THEN IF l.current_mode = "foreground"
       THEN [l EXCEPT !.points_foreground = Append(@, pos)]
       ELSE IF l.current_mode = "background"
       THEN [l EXCEPT !.points_background = Append(@, pos)]
       ELSE l
  ELSE IF button = "RightButton" THEN remove_point(l, pos)
  ELSE l

(* ------------------- the raster of show_mrc_slice --------------------- *)

Max(a, b) == IF a > b THEN a ELSE b

\* a in ascending order, as np.percentile sorts it
RECURSIVE sorted(_)
sorted(a) ==
  IF a = <<>> THEN <<>>
  ELSE LET i == CHOOSE i \in 1..Len(a) : \A j \in 1..Len(a) : a[i] <= a[j]
       IN <<a[i]>> \o sorted(SubSeq(a, 1, i - 1) \o SubSeq(a, i + 1, Len(a)))

\* np.percentile(a, q), linear interpolation at the index q/100 * (n - 1),
\* in hundredths of a pixel value
percentile(a, q) ==
  LET srt == sorted(a)
      n == Len(a)
      k == q * (n - 1)
      lo == (k \div 100) + 1
      hi == Min(lo + 1, n)
  IN 100 * srt[lo] + (k % 100) * (srt[hi] - srt[lo])

\* np.clip of one value, in hundredths
np_clip(x, lo, hi) == Min(Max(x, lo), hi)

\* lines 173-178 of show_mrc_slice on the pixels of one slice: the
\* percentiles, the clipping, the division and the cast to uint8 (in exact
\* arithmetic).  With p99 = p01 the division is 0/0 = NaN for every pixel,
\* numpy warns and does not raise, and what the cast of NaN to uint8 gives
\* is not defined: nan_cast is the value it happens to give
render_slice(slice_data, nan_cast) ==
  LET p01 == percentile(slice_data, 1)
      p99 == percentile(slice_data, 99)
      clipped == [i \in 1..Len(slice_data) |-> np_clip(100 * slice_data[i], p01, p99)]
  IN IF p99 = p01
     THEN [divzero |-> TRUE, p01 |-> p01, p99 |-> p99,
           raster |-> [i \in 1..Len(slice_data) |-> nan_cast]]
     ELSE [divzero |-> FALSE, p01 |-> p01, p99 |-> p99,
           raster |-> [i \in 1..Len(slice_data) |->
                         ((clipped[i] - p01) * 255) \div (p99 - p01)]]

(* ---------------------------- MainWindow ------------------------------ *)

\* MainWindow.__init__ with create_actions: the fields of the window, the
\* checked state of the two toggles, and the slice selector (absent)
MainWindow_init ==
  [mrc_data |-> None,
   mrc_filename |-> <<>>,
   current_slice |-> 0,
   total_slices |-> 0,
   has_selector |-> FALSE,
   sel_max |-> 0,
   sel_value |-> 0,
   foreground_checked |-> TRUE,
   background_checked |-> FALSE]

\* A handler works on a record P: l the ImageLabel, w the MainWindow, exc the
\* Python exception now propagating ("none" when there is none), esc an
\* exception that left a slot called from inside Qt, ext the slice
\* extractions attempted so far, each <<index, length of the first axis,
\* whether the slices of the array are 2-D>>
Start(l, w) == [l |-> l, w |-> w, exc |-> "none", esc |-> "none", ext |-> <<>>]

Raise(P, e) == [P EXCEPT !.exc = e]

\* MainWindow.show_mrc_slice
show_mrc_slice(P, slice_index) ==
  IF P.w.mrc_data = None
  THEN Raise(P, "TypeError")
  ELSE LET data == P.w.mrc_data
           P1 == [P EXCEPT !.ext = Append(@, <<slice_index, data.len, data.renders>>)]
       IN IF slice_index >= data.len
          THEN Raise(P1, "IndexError")
          ELSE IF ~data.renders
          THEN Raise(P1, "ValueError")
          ELSE [P1 EXCEPT !.l = set_mrc_image(@, [file |-> data.file, slice |-> slice_index])]

\* MainWindow.slice_changed
slice_changed(P, value) ==
  show_mrc_slice([P EXCEPT !.w.current_slice = value], value)

\* QSpinBox.setMaximum on the connected selector: the value is bounded by
\* the new maximum, and valueChanged runs slice_changed when that changes
\* it; an exception of the slot does not come back to the caller
selector_setMaximum(P, maximum) ==
  LET v == Min(P.w.sel_value, maximum)
      P1 == [P EXCEPT !.w.sel_max = maximum, !.w.sel_value = v]
  IN IF v = P.w.sel_value
     THEN P1
     ELSE LET P2 == slice_changed(P1, v)
          IN [P2 EXCEPT !.exc = "none", !.esc = P2.exc]

\* MainWindow.create_slice_selector
create_slice_selector(P) ==
  IF P.w.has_selector
  THEN selector_setMaximum(P, P.w.total_slices)
  ELSE [P EXCEPT !.w.has_selector = TRUE,
                 !.w.sel_max = P.w.total_slices,
                 !.w.sel_value = Min(P.w.current_slice, P.w.total_slices)]

\* a total_slices that is the depth itself
total_slices_depth(data) == data.len

\* self.mrc_data.shape[0] - 1 of open_mrc_file
total_slices_of(data) == data.len - 1

\* the body of the try block of open_mrc_file
open_mrc_try(P, filename, content) ==
  IF content.parse = "fail"
  THEN Raise(P, "ValueError")
  ELSE LET data == IF content.parse = "nodata" THEN None
                   ELSE [file |-> filename, len |-> content.len, renders |-> content.renders]
           P1 == [P EXCEPT !.w.mrc_data = data, !.w.mrc_filename = filename]
       IN IF data = None
          THEN Raise(P1, "TypeError")
          ELSE LET P2 == [P1 EXCEPT !.w.current_slice = data.len \div 2,
                                    !.w.total_slices = total_slices_of(data)]
                   P3 == show_mrc_slice(P2, P2.w.current_slice)
               IN IF P3.exc # "none" THEN P3 ELSE create_slice_selector(P3)

\* MainWindow.open_mrc_file: every exception of the body is caught and
\* shown as a notice
open_mrc_file(P, filename, content) ==
  LET R == open_mrc_try(P, filename, content)
  IN [l |-> R.l, w |-> R.w, exc |-> "none", esc |-> R.esc, ext |-> R.ext,
      notice |-> IF R.exc # "none" THEN "error" ELSE "none"]

\* MainWindow.open_image, given what the dialog returned (<<>> when the
\* dialog was cancelled); QToolBar has no removeWidget, so asking for it
\* raises AttributeError
open_image(P, filename, content) ==
  LET quiet(Q) == [l |-> Q.l, w |-> Q.w, exc |-> Q.exc, esc |-> Q.esc,
                   ext |-> Q.ext, notice |-> "none"]
  IN IF filename = <<>>
     THEN quiet(P)
     ELSE IF lower(splitext(filename)[2]) = ExtMrc
     THEN open_mrc_file(P, filename, content)
     ELSE LET P1 == [P EXCEPT !.w.mrc_data = None,
                              !.w.mrc_filename = <<>>,
                              !.l = set_image(@, filename)]
          IN IF P1.w.has_selector
             THEN quiet(Raise(P1, "AttributeError"))
             ELSE quiet(P1)

\* MainWindow.set_foreground_mode
set_foreground_mode(P) ==
  [P EXCEPT !.w.foreground_checked = TRUE,
            !.w.background_checked = FALSE,
            !.l.current_mode = "foreground"]

\* a set_background_mode that leaves the Foreground toggle checked
set_background_mode_both(P) ==
  [P EXCEPT !.w.background_checked = TRUE,
            !.l.current_mode = "background"]

\* MainWindow.set_background_mode
set_background_mode(P) ==
  [P EXCEPT !.w.foreground_checked = FALSE,
            !.w.background_checked = TRUE,
            !.l.current_mode = "background"]

\* MainWindow.clear_points
clear_points(P) ==
  [P EXCEPT !.l.points_foreground = <<>>,
            !.l.points_background = <<>>]

InputPoints == <<"i", "n", "p", "u", "t", "_", "p", "o", "i", "n", "t", "s">>

Image == <<"i", "m", "a", "g", "e">>

PointsNpz == <<"_", "p", "o", "i", "n", "t", "s", ".", "n", "p", "z">>

\* os.path.join of a directory and a name
path_join(dir, name) == dir \o <<"/">> \o name

\* MainWindow.save_points, given whether input_points exists and whether
\* os.makedirs and np.savez fail; the result says whether the directory
\* exists afterwards, the notice shown and the archive written
save_points(P, dir_exists, makedirs_fails, savez_fails) ==
  LET res(exc, dir, notice, archive) ==
        [exc |-> exc, dir_exists |-> dir, notice |-> notice, archive |-> archive]
  IN IF ~dir_exists /\ makedirs_fails
     THEN res("OSError", FALSE, "none", NoArchive)
     ELSE LET points_foreground == np_array(P.l.points_foreground)
              points_background == np_array(P.l.points_background)
          IN IF vstack_raises(points_foreground, points_background)
             THEN res("ValueError", TRUE, "none", NoArchive)
             ELSE LET all_points == vstack(points_foreground, points_background)
                      labels == hstack(np_ones(np_len(points_foreground)),
                                       np_zeros(np_len(points_background)))
                      filename == P.w.mrc_filename
                      stem == splitext(basename(filename))[1]
                      base_filename == IF stem = <<>> THEN Image ELSE stem
                      save_path == path_join(InputPoints, base_filename \o PointsNpz)
                  IN IF savez_fails
                     THEN res("none", TRUE, "error", NoArchive)
                     ELSE res("none", TRUE, "saved",
                              [path |-> save_path, filename |-> filename,
                               points |-> all_points, labels |-> labels])

(* ------------------------------- state -------------------------------- *)

VARIABLES
  image_label,   \* the ImageLabel: point lists, mode, displayed pixmap
  win,           \* the MainWindow: mrc fields, toggles, slice selector
  dir_exists,    \* whether the directory input_points exists
  alive,         \* whether the process is still running
  out,           \* what the last handler did: its inputs, the lists it found, its outcome
  render         \* the slice handed to show_mrc_slice and the raster made of it

vars == <<image_label, win, dir_exists, alive, out, render>>

\* no slice is looked at pixel by pixel
NoRender ==
  [stage |-> "none", slice |-> <<>>, divzero |-> FALSE, p01 |-> 0, p99 |-> 0, raster |-> <<>>]

NoOut ==
  [op |-> "init", pos |-> <<0, 0>>, file |-> <<>>, value |-> -1,
   pre_fg |-> <<>>, pre_bg |-> <<>>,
   exc |-> "none", notice |-> "none", ext |-> <<>>, archive |-> NoArchive]

NumPoints == Len(image_label.points_foreground) + Len(image_label.points_background)

\* the record of a handler op as it starts: the lists it finds
Begin(op) ==
  [NoOut EXCEPT !.op = op,
                !.pre_fg = image_label.points_foreground,
                !.pre_bg = image_label.points_background]

Init ==
  /\ image_label = ImageLabel_init
  /\ win = MainWindow_init
  /\ dir_exists \in BOOLEAN
  /\ alive = TRUE
  /\ out = NoOut
  /\ render = NoRender

\* An exception that leaves a slot is not handled by the program: PyQt
\* either prints it and goes on, or aborts the process
Escapes(exc) ==
  IF exc = "none" THEN alive' = TRUE ELSE alive' \in BOOLEAN

\* a handler that ends with the record P and has no other outcome
Ends(P, o) ==
  /\ image_label' = P.l
  /\ win' = P.w
  /\ out' = [o EXCEPT !.exc = IF P.exc # "none" THEN P.exc ELSE P.esc, !.ext = P.ext]
  /\ Escapes(out'.exc)

(* ------------------------------ actions ------------------------------- *)

\* a left click on the canvas
LeftClick(pos, limit) ==
  /\ alive
  /\ NumPoints < limit
  /\ image_label' = mousePressEvent(image_label, "LeftButton", pos)
  /\ out' = [Begin("add") EXCEPT !.pos = pos]
  /\ UNCHANGED <<win, dir_exists, alive, render>>

\* a right click on the canvas
RightClick(pos) ==
  /\ alive
  /\ image_label' = mousePressEvent(image_label, "RightButton", pos)
  /\ out' = [Begin("remove") EXCEPT !.pos = pos]
  /\ UNCHANGED <<win, dir_exists, alive, render>>

\* the Foreground toggle is triggered
SetForeground ==
  /\ alive
  /\ Ends(set_foreground_mode(Start(image_label, win)), Begin("set_foreground"))
  /\ UNCHANGED <<dir_exists, render>>

\* the Background toggle is triggered
SetBackground ==
  /\ alive
  /\ Ends(set_background_mode(Start(image_label, win)), Begin("set_background"))
  /\ UNCHANGED <<dir_exists, render>>

\* Clear Points is triggered
ClearPoints ==
  /\ alive
  /\ Ends(clear_points(Start(image_label, win)), Begin("clear"))
  /\ UNCHANGED <<dir_exists, render>>

\* Save Points is triggered
SavePoints(makedirs_fails, savez_fails) ==
  /\ alive
  /\ LET R == save_points(Start(image_label, win), dir_exists, makedirs_fails, savez_fails)
     IN /\ dir_exists' = R.dir_exists
        /\ out' = [Begin("save") EXCEPT !.exc = R.exc,
                                !.notice = R.notice, !.archive = R.archive]
        /\ Escapes(R.exc)
  /\ UNCHANGED <<image_label, win, render>>

\* Open is triggered and the dialog returns a file; what the file holds is
\* only read when it is opened as a volumetric file
OpenImage(filename, content) ==
  /\ alive
  /\ lower(splitext(filename)[2]) # ExtMrc => content = NoContent
  /\ LET R == open_image(Start(image_label, win), filename, content)
     IN Ends(R, [Begin("open") EXCEPT !.file = filename, !.notice = R.notice])
  /\ UNCHANGED <<dir_exists, render>>

\* Open is triggered and the dialog is cancelled
OpenCancel ==
  /\ alive
  /\ LET R == open_image(Start(image_label, win), <<>>, CHOOSE c \in Contents : TRUE)
     IN Ends(R, Begin("open_cancel"))
  /\ UNCHANGED <<dir_exists, render>>

\* the user changes the value of the slice selector
SliceChanged(value) ==
  /\ alive
  /\ win.has_selector
  /\ value \in 0..win.sel_max
  /\ value # win.sel_value
  /\ Ends(slice_changed(Start(image_label, [win EXCEPT !.sel_value = value]), value),
          [Begin("slice_changed") EXCEPT !.value = value])
  /\ UNCHANGED <<dir_exists, render>>

\* Exit is triggered
Exit ==
  /\ alive
  /\ alive' = FALSE
  /\ out' = Begin("exit")
  /\ UNCHANGED <<image_label, win, dir_exists, render>>

Next ==
  \/ \E pos \in Coords : LeftClick(pos, MaxPoints)
  \/ \E pos \in Positions : RightClick(pos)
  \/ SetForeground
  \/ SetBackground
  \/ ClearPoints
  \/ \E mf \in BOOLEAN, sf \in BOOLEAN : SavePoints(mf, sf)
  \/ \E f \in Files, c \in CanvasContents : OpenImage(f, c)
  \/ OpenCancel
  \/ \E v \in 0..MaxDepth : SliceChanged(v)
  \/ Exit

\* the point lists explored in full, the volumetric files in part
Spec == Init /\ [][Next]_vars

InitViewer ==
  /\ image_label = ImageLabel_init
  /\ win = MainWindow_init
  /\ dir_exists = TRUE
  /\ alive = TRUE
  /\ out = NoOut
  /\ render = NoRender

NextViewer ==
  \/ \E pos \in ViewerCoords : LeftClick(pos, ViewerPoints)
  \/ \E pos \in ViewerCoords : RightClick(pos)
  \/ SetForeground
  \/ SetBackground
  \/ ClearPoints
  \/ \E mf \in BOOLEAN, sf \in BOOLEAN : SavePoints(mf, sf)
  \/ \E f \in Files, c \in Contents : OpenImage(f, c)
  \/ OpenCancel
  \/ \E v \in 0..MaxDepth : SliceChanged(v)
  \/ Exit

\* the volumetric files explored in full, the point lists in part
SpecViewer == InitViewer /\ [][NextViewer]_vars

\* the pixels of a slice are handed to show_mrc_slice; the rest of the
\* state plays no part in what the raster becomes
InitRender ==
  /\ image_label = ImageLabel_init
  /\ win = MainWindow_init
  /\ dir_exists = TRUE
  /\ alive = TRUE
  /\ out = NoOut
  /\ \E s \in Slices : render = [NoRender EXCEPT !.stage = "slice", !.slice = s]

\* show_mrc_slice makes the raster of the slice
RenderSlice ==
  /\ render.stage = "slice"
  /\ \E nan_cast \in 0..255 :
       LET R == render_slice(render.slice, nan_cast)
       IN render' = [stage |-> "shown", slice |-> render.slice, divzero |-> R.divzero,
                     p01 |-> R.p01, p99 |-> R.p99, raster |-> R.raster]
  /\ UNCHANGED <<image_label, win, dir_exists, alive, out>>

NextRender == RenderSlice

\* the pixels of one slice through show_mrc_slice
SpecRender == InitRender /\ [][NextRender]_vars

(* ------------------------------ claims -------------------------------- *)

fg == image_label.points_foreground

bg == image_label.points_background

\* s without its i-th entry
RemoveAt(s, i) == SubSeq(s, 1, i - 1) \o SubSeq(s, i + 1, Len(s))

\* the indices of the entries of s within Manhattan distance 7 of pos
InRange(s, pos) ==
  { i \in 1..Len(s) : Abs(s[i][1] - pos[1]) + Abs(s[i][2] - pos[2]) <= 7 }

Lowest(I) == CHOOSE i \in I : \A j \in I : i <= j

\* the last handler was an open that put a new source on the canvas
Loaded == out.op = "open" /\ out.notice = "none"

\* the last handler was a save that met no failure of the file system
SaveNoIOFailure == out.op = "save" /\ out.exc # "OSError" /\ out.notice # "error"

\* C1: loading a new source, flat or volumetric, leaves both point lists
\* empty, whatever the lists, the mode and the source were before.
C1_LoadEmptiesLists == Loaded => (fg = <<>> /\ bg = <<>>)

\* a flat image was loaded over a volumetric one while both lists held a
\* point and the mode was background
C1_Witness ==
  /\ Loaded
  /\ out.file = FileP
  /\ out.pre_fg # <<>>
  /\ out.pre_bg # <<>>
  /\ image_label.current_mode = "background"
  /\ win.has_selector
  /\ fg = <<>>
  /\ bg = <<>>

\* C2: for every M >= 0 foreground and K >= 0 background points, save
\* succeeds and writes labels = M ones then K zeros and points = the M + K
\* coordinates, foreground first, as rows of 2.
C2_SaveRoundTrip ==
  SaveNoIOFailure =>
    /\ out.notice = "saved"
    /\ out.archive.labels.shape = <<Len(fg) + Len(bg)>>
    /\ out.archive.labels.data = [i \in 1..(Len(fg) + Len(bg)) |-> IF i <= Len(fg) THEN 1 ELSE 0]
    /\ out.archive.points.shape = <<Len(fg) + Len(bg), 2>>
    /\ out.archive.points.data = fg \o bg

\* C3: a right click removes exactly one point when some stored point is
\* within Manhattan distance 7 of it: the first such foreground entry if
\* there is one, else the first such background entry; otherwise it changes
\* nothing; the other entries keep their order.
C3_RemoveAtMostOne ==
  out.op = "remove" =>
    LET F == InRange(out.pre_fg, out.pos)
        B == InRange(out.pre_bg, out.pos)
    IN IF F # {}
       THEN fg = RemoveAt(out.pre_fg, Lowest(F)) /\ bg = out.pre_bg
       ELSE IF B # {}
       THEN bg = RemoveAt(out.pre_bg, Lowest(B)) /\ fg = out.pre_fg
       ELSE fg = out.pre_fg /\ bg = out.pre_bg

\* a right click with a point of each list in range took the foreground one
C3_Witness ==
  /\ out.op = "remove"
  /\ InRange(out.pre_fg, out.pos) # {}
  /\ InRange(out.pre_bg, out.pos) # {}
  /\ Len(fg) = Len(out.pre_fg) - 1
  /\ bg = out.pre_bg

\* C4: a left click in mode m appends exactly the clicked coordinate to the
\* list of mode m and leaves the other list alone, without clamping and
\* without de-duplication.
C4_AddAppends ==
  out.op = "add" =>
    IF image_label.current_mode = "foreground"
    THEN fg = Append(out.pre_fg, out.pos) /\ bg = out.pre_bg
    ELSE bg = Append(out.pre_bg, out.pos) /\ fg = out.pre_fg

\* a coordinate outside any raster was stored a second time
C4_Witness ==
  /\ out.op = "add"
  /\ out.pos = <<-20, 900>>
  /\ \E i \in 1..Len(out.pre_fg) : out.pre_fg[i] = out.pos
  /\ Len(fg) = Len(out.pre_fg) + 1
  /\ fg[Len(fg)] = out.pos

\* C5: apart from a load and Clear Points, no handler (slice selection, mode
\* switch, save, a cancelled open) changes either point list.
C5_ListsNeverAutoCleared ==
  out.op \in {"slice_changed", "set_foreground", "set_background", "save", "open_cancel"}
    => (fg = out.pre_fg /\ bg = out.pre_bg)

\* C6: a save with both lists empty succeeds and writes points of shape
\* (0, 2) and labels of length 0.
C6_SaveEmpty ==
  (SaveNoIOFailure /\ fg = <<>> /\ bg = <<>>) =>
    /\ out.notice = "saved"
    /\ out.archive.points.shape = <<0, 2>>
    /\ out.archive.labels.shape = <<0>>

\* C7: every failure inside Save Points is caught in the handler and ends
\* in the error notice; no exception leaves the handler and the process
\* goes on.
C7_SaveFailuresCaught ==
  out.op = "save" =>
    /\ out.exc = "none"
    /\ out.notice \in {"saved", "error"}
    /\ alive

\* the displayed raster is a slice of a volumetric file
VolumetricShown == image_label.image.slice >= 0

\* C8: the slice selector is present exactly when the loaded source is a
\* volumetric file, and opening a flat image completes without error.
C8_SelectorIffVolumetric ==
  /\ win.has_selector <=> VolumetricShown
  /\ (out.op = "open" /\ lower(splitext(out.file)[2]) # ExtMrc) => out.exc = "none"

\* the last handler was a successful load of a volumetric file
StackOpened ==
  /\ Loaded
  /\ lower(splitext(out.file)[2]) = ExtMrc

\* C9: after every successful load of a stack of depth d the current slice
\* is floor(d / 2) and the displayed raster is that slice.
C9_LoadStartsAtMiddle ==
  StackOpened =>
    /\ win.current_slice = win.mrc_data.len \div 2
    /\ image_label.image = [file |-> out.file, slice |-> win.mrc_data.len \div 2]

\* a stack of depth d >= 1 is loaded
StackLoaded ==
  /\ win.mrc_data # None
  /\ win.mrc_data.renders
  /\ win.mrc_data.len >= 1

\* C10: while a stack of depth d >= 1 is loaded the current slice is in
\* 0..d-1, the selector offers exactly 0..d-1, a selection shows the
\* selected slice without error, and no index outside 0..d-1 is used to
\* extract a slice of a stack.
C10_SliceInRange ==
  /\ StackLoaded =>
       /\ win.current_slice \in 0..(win.mrc_data.len - 1)
       /\ win.has_selector
       /\ win.sel_max = win.mrc_data.len - 1
       /\ win.sel_value \in 0..win.sel_max
  /\ (StackLoaded /\ out.op = "slice_changed") =>
       /\ out.exc = "none"
       /\ win.current_slice = out.value
       /\ image_label.image = [file |-> win.mrc_filename, slice |-> out.value]
  /\ \A k \in 1..Len(out.ext) :
       (out.ext[k][3] /\ out.ext[k][2] >= 1) => out.ext[k][1] \in 0..(out.ext[k][2] - 1)

\* the last slice of a stack that replaced a deeper one was selected
C10_Witness ==
  /\ StackLoaded
  /\ out.op = "slice_changed"
  /\ win.mrc_data.len = 3
  /\ out.value = 2
  /\ out.ext = << <<2, 3, TRUE>> >>
  /\ image_label.image.slice = 2

\* the two lists the last handler found, foreground first
AllPre == out.pre_fg \o out.pre_bg

Dist(p, q) == Abs(p[1] - q[1]) + Abs(p[2] - q[2])

\* the last handler was a right click with several stored points in range
SeveralInRange ==
  /\ out.op = "remove"
  /\ Cardinality(InRange(AllPre, out.pos)) >= 2

\* C11 as stated: with several stored points in range, a right click
\* removes the nearest of them.
C11_RemovesNearest ==
  SeveralInRange =>
    \E i \in InRange(AllPre, out.pos) :
      /\ \A j \in InRange(AllPre, out.pos) : Dist(AllPre[i], out.pos) <= Dist(AllPre[j], out.pos)
      /\ fg \o bg = RemoveAt(AllPre, i)

\* C11 as amended: with several stored points in range, a right click
\* removes the first of them in list order, foreground list before
\* background list, whether or not a later one is nearer.
C11_RemovesFirstInOrder ==
  SeveralInRange =>
    LET i == Lowest(InRange(AllPre, out.pos))
    IN /\ fg \o bg = RemoveAt(AllPre, i)
       /\ Len(fg) = Len(out.pre_fg) - (IF i <= Len(out.pre_fg) THEN 1 ELSE 0)

\* a right click removed an earlier entry although a later one was nearer
C11_Witness ==
  /\ SeveralInRange
  /\ LET I == InRange(AllPre, out.pos)
     IN /\ \E j \in I : Dist(AllPre[j], out.pos) < Dist(AllPre[Lowest(I)], out.pos)
        /\ fg \o bg = RemoveAt(AllPre, Lowest(I))

\* C12: a save writes input_points/<basename>_points, <basename> being the
\* base name of the source file whose raster is on the canvas.
C12_RecordNamedAfterDisplayedFile ==
  (out.op = "save" /\ out.notice = "saved" /\ image_label.image # NullPixmap) =>
    out.archive.path =
      path_join(InputPoints, splitext(basename(image_label.image.file))[1] \o PointsNpz)

\* C14: while no raster is loaded a click changes neither list, so both
\* lists are empty whenever no source has been loaded.
C14_NoClickWithoutRaster ==
  image_label.image = NullPixmap => (fg = <<>> /\ bg = <<>>)

\* exactly one toggle is checked and it is the mode of the canvas
OneMode ==
  /\ image_label.current_mode \in {"foreground", "background"}
  /\ win.foreground_checked = (image_label.current_mode = "foreground")
  /\ win.background_checked = (image_label.current_mode = "background")

\* a toggle sets its own mode, every other handler keeps the mode
ModeStep ==
  /\ out'.op = "set_foreground" => image_label'.current_mode = "foreground"
  /\ out'.op = "set_background" => image_label'.current_mode = "background"
  /\ out'.op \notin {"set_foreground", "set_background"}
       => image_label'.current_mode = image_label.current_mode

\* C15: in every state exactly one of the two toggles is checked and it
\* equals the mode of the canvas, initially foreground; a toggle that is
\* triggered is active afterwards, and load, clear, slice selection and save
\* never change the mode.
C15_ExactlyOneMode ==
  /\ image_label.current_mode = "foreground"
  /\ []OneMode
  /\ [][ModeStep]_vars

\* a source was loaded while the mode was background, and it still is
C15_Witness ==
  /\ Loaded
  /\ image_label.image # NullPixmap
  /\ image_label.current_mode = "background"
  /\ win.background_checked
  /\ ~win.foreground_checked

\* C16: whenever a stack is loaded the selector shows current_slice, which
\* is the index of the slice displayed.
C16_SelectorShowsCurrentSlice ==
  StackLoaded =>
    /\ win.sel_value = win.current_slice
    /\ image_label.image.slice = win.current_slice

\* C17: an open of a volumetric file that fails leaves the window and the
\* canvas as they were.
C17_FailedOpenChangesNothing ==
  [][(out'.op = "open" /\ out'.notice = "error")
       => (win' = win /\ image_label' = image_label)]_vars

\* the slice that was rendered has all its values equal
FlatShown ==
  /\ render.stage = "shown"
  /\ \A i \in 1..Len(render.slice) : render.slice[i] = render.slice[1]

\* C13: a slice whose values are all equal is rendered without a division
\* by p99 - p01 = 0, into a uniform raster of 8-bit values.
C13_FlatSliceSpecialCased ==
  FlatShown =>
    /\ ~render.divzero
    /\ \A i \in 1..Len(render.raster) :
         render.raster[i] \in 0..255 /\ render.raster[i] = render.raster[1]

====
